---------------------------- MODULE Spec2Model ----------------------------
(***************************************************************************)
(* A model of the XPC object codec and message framing of                  *)
(* src/idevice/src/xpc/format.rs.                                          *)
(*                                                                         *)
(* Bytes are naturals 0..255 and a buffer is a sequence of bytes.  A u32   *)
(* is a pair of 16-bit limbs <<lo, hi>> and a u64 (or the bit pattern of   *)
(* an i64) four 16-bit limbs, least significant first, so that every       *)
(* 32-bit and 64-bit value of the wire is representable and arithmetic on  *)
(* them wraps exactly where the machine's does.  A String is the sequence  *)
(* of its UTF-8 bytes.                                                     *)
(***************************************************************************)
EXTENDS Integers, Sequences, FiniteSets, TLC

VARIABLES
    obj,              \* Option<XPCObject>: the tree given to XPCObject::encode
    msg,              \* Option<XPCMessage>: the message given to XPCMessage::encode
    id,               \* the message_id argument of XPCMessage::encode
    buf,              \* the byte buffer produced, or handed to a decode call
    made,             \* how buf came to be
    out,              \* the result of the decode call on buf
    pad_len,          \* the argument of a calculate_padding call
    pad_out,          \* what that call returned
    call,             \* the arguments of a call of a flag or plist function
    got,              \* what that call returned
    th,               \* the threads that call the codec at the same time
    heap,             \* the Vec<u8> each encode call of a thread builds
    overflow_checks,  \* the build: are overflow checks compiled in
    rx,               \* pair_gui: the commands in the channel to the worker
    gui_alive,        \* pair_gui: the GUI still holds the command sender
    sent,             \* pair_gui: how many commands the GUI has sent
    worker,           \* pair_gui: "recv" (in its loop), "stopped", "panicked"
    last,             \* pair_gui: the command handled last and its events
    handled           \* pair_gui: how many commands the worker has handled

\* the state of a single caller
codec == <<obj, msg, id, buf, made, out, pad_len, pad_out, call, got>>

\* the state of the pair_gui worker and its channels
gui == <<rx, gui_alive, sent, worker, last, handled>>

vars == <<obj, msg, id, buf, made, out, pad_len, pad_out, call, got,
          th, heap, overflow_checks, rx, gui_alive, sent, worker, last,
          handled>>

-----------------------------------------------------------------------------
(* Bounds of the model.                                                    *)

\* Largest number of elements of an Array / entries of a Dictionary input.
MaxElems == 2
\* Depth of nesting of containers inside containers in the inputs.
MaxDepth == 2
\* Largest length handed to calculate_padding on its own.
MaxPadLen == 40
\* Number of threads calling the codec at the same time.
NThreads == 2
\* Number of commands the GUI sends to the worker.
MaxCmds == 2
\* Number of devices a scan finds.
MaxDevices == 2

-----------------------------------------------------------------------------
(* Machine words.                                                          *)

Limb == 256 * 256

\* u32::from_le_bytes / u32::to_le_bytes
U32FromLeBytes(b) == <<b[1] + 256 * b[2], b[3] + 256 * b[4]>>

U32ToLeBytes(w) == <<w[1] % 256, w[1] \div 256, w[2] % 256, w[2] \div 256>>

\* u64::from_le_bytes / u64::to_le_bytes (also i64, on the bit pattern)
U64FromLeBytes(b) ==
    <<b[1] + 256 * b[2], b[3] + 256 * b[4], b[5] + 256 * b[6], b[7] + 256 * b[8]>>

U64ToLeBytes(w) ==
    <<w[1] % 256, w[1] \div 256, w[2] % 256, w[2] \div 256,
      w[3] % 256, w[3] \div 256, w[4] % 256, w[4] \div 256>>

\* `n as u32` and `n as u64` of a usize n (buffer lengths: below 2^31 here)
UsizeAsU32(n) == <<n % Limb, (n \div Limb) % Limb>>

UsizeAsU64(n) == <<n % Limb, (n \div Limb) % Limb, 0, 0>>

\* The number of whole bytes a u32 length asks for exceeds every buffer of the
\* model as soon as its high limb is set; otherwise it is the low limb.
U32Fits(w, n) == w[2] = 0 /\ w[1] <= n

\* a + b on u64, with the carry out of bit 63
U64Add(a, b) ==
    LET s1 == a[1] + b[1]
        s2 == a[2] + b[2] + s1 \div Limb
        s3 == a[3] + b[3] + s2 \div Limb
        s4 == a[4] + b[4] + s3 \div Limb
    IN  [v |-> <<s1 % Limb, s2 % Limb, s3 % Limb, s4 % Limb>>,
         carry |-> s4 \div Limb > 0]

\* a > b on u64
U64Gt(a, b) ==
    \/ a[4] > b[4]
    \/ a[4] = b[4] /\ a[3] > b[3]
    \/ a[4] = b[4] /\ a[3] = b[3] /\ a[2] > b[2]
    \/ a[4] = b[4] /\ a[3] = b[3] /\ a[2] = b[2] /\ a[1] > b[1]

\* n - 1 on u32, n # 0
U32Dec(w) == IF w[1] > 0 THEN <<w[1] - 1, w[2]>> ELSE <<Limb - 1, w[2] - 1>>

Zeros(n) == [i \in 1..n |-> 0]

-----------------------------------------------------------------------------
(* Flags (enum XPCFlag).  A flag is its variant v and, for Custom, the     *)
(* u32 it carries (inner; <<0, 0>> in the other variants).                 *)

XPCFlag(v, inner) == [v |-> v, inner |-> inner]
AlwaysSet     == XPCFlag("AlwaysSet", <<0, 0>>)
DataFlag      == XPCFlag("DataFlag", <<0, 0>>)
WantingReply  == XPCFlag("WantingReply", <<0, 0>>)
InitHandshake == XPCFlag("InitHandshake", <<0, 0>>)
Custom(inner) == XPCFlag("Custom", inner)

\* impl From<XPCFlag> for u32
U32FromXPCFlag(value) ==
    CASE value.v = "AlwaysSet"     -> <<1, 0>>       \* 0x00000001
      [] value.v = "DataFlag"      -> <<256, 0>>     \* 0x00000100
      [] value.v = "WantingReply"  -> <<0, 1>>       \* 0x00010000
      [] value.v = "InitHandshake" -> <<0, 64>>      \* 0x00400000
      [] value.v = "Custom"        -> value.inner

\* a | b on naturals, bit by bit
RECURSIVE BitOrNat(_, _)
BitOrNat(a, b) ==
    IF a = 0 THEN b
    ELSE IF b = 0 THEN a
    ELSE (IF a % 2 = 1 \/ b % 2 = 1 THEN 1 ELSE 0) + 2 * BitOrNat(a \div 2, b \div 2)

\* `|` of u32
U32BitOr(a, b) == <<BitOrNat(a[1], b[1]), BitOrNat(a[2], b[2])>>

\* impl BitOr for XPCFlag
XPCFlag_bitor(self, rhs) == Custom(U32BitOr(U32FromXPCFlag(self), U32FromXPCFlag(rhs)))

\* A mutant of XPCFlag_eq: equality of variant and payload, as derived.
XPCFlag_eq_Derived(self, other) == self = other

\* impl PartialEq for XPCFlag
XPCFlag_eq(self, other) == U32FromXPCFlag(self) = U32FromXPCFlag(other)

-----------------------------------------------------------------------------
(* Type tags (enum XPCType) and header words.                              *)

TagBool       == <<8192, 0>>     \* 0x00002000
TagDictionary == <<61440, 0>>    \* 0x0000f000
TagArray      == <<57344, 0>>    \* 0x0000e000
TagInt64      == <<12288, 0>>    \* 0x00003000
TagUInt64     == <<16384, 0>>    \* 0x00004000
TagString     == <<36864, 0>>    \* 0x00009000
TagData       == <<32768, 0>>    \* 0x00008000
TagUuid       == <<40960, 0>>    \* 0x0000a000

ObjectMagic   == <<14146, 16915>>  \* 0x42133742
ObjectVersion == <<5, 0>>          \* 0x00000005
MessageMagic  == <<2962, 10672>>   \* 0x29b00b92

\* XPCType as u32
XPCTypeAsU32(t) ==
    CASE t = "Bool" -> TagBool
      [] t = "Dictionary" -> TagDictionary
      [] t = "Array" -> TagArray
      [] t = "Int64" -> TagInt64
      [] t = "UInt64" -> TagUInt64
      [] t = "String" -> TagString
      [] t = "Data" -> TagData
      [] t = "Uuid" -> TagUuid

\* A mutant of TryFromU32: an unknown tag is taken for a Bool.
TryFromU32Lenient(value) ==
    CASE value = TagDictionary -> "Dictionary"
      [] value = TagArray -> "Array"
      [] value = TagInt64 -> "Int64"
      [] value = TagUInt64 -> "UInt64"
      [] value = TagString -> "String"
      [] value = TagData -> "Data"
      [] value = TagUuid -> "Uuid"
      [] OTHER -> "Bool"

\* impl TryFrom<u32> for XPCType; "Invalid" stands for Err("Invalid XPCType")
TryFromU32(value) ==
    CASE value = TagBool -> "Bool"
      [] value = TagDictionary -> "Dictionary"
      [] value = TagArray -> "Array"
      [] value = TagInt64 -> "Int64"
      [] value = TagUInt64 -> "UInt64"
      [] value = TagString -> "String"
      [] value = TagData -> "Data"
      [] value = TagUuid -> "Uuid"
      [] OTHER -> "Invalid"

-----------------------------------------------------------------------------
(* XPCObject values.  Every value is a record of the same shape: the     *)
(* variant t and one payload field per kind of payload, the fields a      *)
(* variant does not have being empty: b (Bool), w (the 64 bits of Int64   *)
(* and UInt64), s (the bytes of String, Data and Uuid), items (Array) and  *)
(* entries (Dictionary).                                                   *)

Value(t, b, w, s, items, entries) ==
    [t |-> t, b |-> b, w |-> w, s |-> s, items |-> items, entries |-> entries]

Bool(b)       == Value("Bool", b, <<>>, <<>>, <<>>, <<>>)
Int64(w)      == Value("Int64", FALSE, w, <<>>, <<>>, <<>>)
UInt64(w)     == Value("UInt64", FALSE, w, <<>>, <<>>, <<>>)
String(s)     == Value("String", FALSE, <<>>, s, <<>>, <<>>)
Data(d)       == Value("Data", FALSE, <<>>, d, <<>>, <<>>)
Uuid(u)       == Value("Uuid", FALSE, <<>>, u, <<>>, <<>>)
Array(items)  == Value("Array", FALSE, <<>>, <<>>, items, <<>>)
\* an IndexMap: a sequence of <<key, value>> with pairwise-distinct keys
Dictionary(d) == Value("Dictionary", FALSE, <<>>, <<>>, <<>>, d)

\* A mutant of calculate_padding: the remainder itself.
calculate_padding_Remainder(len) == len % 4

\* A mutant of calculate_padding: the division rounds down, not up.
calculate_padding_Floor(len) ==
    LET c == len \div 4
    IN  IF c * 4 >= len THEN c * 4 - len ELSE 0     \* `as usize` saturates at 0

\* A mutant of calculate_padding: a whole word of padding after a length
\* that is already a multiple of 4.
calculate_padding_AlwaysPads(len) == 4 - (len % 4)

\* fn calculate_padding(len: usize) -> usize, on exact reals
calculate_padding(len) ==
    LET c == (len + 3) \div 4       \* ((len as f64) / 4.0).ceil()
    IN  c * 4 - len

-----------------------------------------------------------------------------
(* Encoder.                                                                *)

\* A mutant of BoolToByte: 1 for true.
BoolToByteNatural(val) == IF val THEN 1 ELSE 0

\* Bool arm: `if *val { 0 } else { 1 }`
BoolToByte(val) == IF val THEN 0 ELSE 1

RECURSIVE encode_object(_)
RECURSIVE encode_items(_, _)
RECURSIVE encode_entries(_, _)

\* the `for item in items` loop of the Array arm, from element i on
encode_items(items, i) ==
    IF i > Len(items) THEN <<>>
    ELSE encode_object(items[i]) \o encode_items(items, i + 1)

\* the `for (k, v) in dict` loop of the Dictionary arm, from entry i on
encode_entries(dict, i) ==
    IF i > Len(dict) THEN <<>>
    ELSE LET k == dict[i][1]
             padding == calculate_padding(Len(k) + 1)
         IN  k \o <<0>> \o Zeros(padding) \o encode_object(dict[i][2])
               \o encode_entries(dict, i + 1)

\* fn encode_object(&self, buf): the bytes it appends to buf
encode_object(x) ==
    CASE x.t = "Bool" ->
           U32ToLeBytes(XPCTypeAsU32("Bool")) \o <<BoolToByte(x.b)>> \o Zeros(3)
      [] x.t = "Dictionary" ->
           U32ToLeBytes(XPCTypeAsU32("Dictionary")) \o U32ToLeBytes(<<0, 0>>)
             \o U32ToLeBytes(UsizeAsU32(Len(x.entries)))
             \o encode_entries(x.entries, 1)
      [] x.t = "Array" ->
           U32ToLeBytes(XPCTypeAsU32("Array")) \o U32ToLeBytes(<<0, 0>>)
             \o U32ToLeBytes(UsizeAsU32(Len(x.items))) \o encode_items(x.items, 1)
      [] x.t = "Int64" -> U32ToLeBytes(XPCTypeAsU32("Int64")) \o U64ToLeBytes(x.w)
      [] x.t = "UInt64" -> U32ToLeBytes(XPCTypeAsU32("UInt64")) \o U64ToLeBytes(x.w)
      [] x.t = "String" ->
           LET l == Len(x.s) + 1
               padding == calculate_padding(l)
           IN  U32ToLeBytes(XPCTypeAsU32("String")) \o U32ToLeBytes(UsizeAsU32(l))
                 \o x.s \o <<0>> \o Zeros(padding)
      [] x.t = "Data" ->
           LET l == Len(x.s)
               padding == calculate_padding(l)
           IN  U32ToLeBytes(XPCTypeAsU32("Data")) \o U32ToLeBytes(UsizeAsU32(l))
                 \o x.s \o Zeros(padding)
      [] x.t = "Uuid" ->
           U32ToLeBytes(XPCTypeAsU32("Uuid")) \o U32ToLeBytes(<<16, 0>>) \o x.s

\* pub fn encode(&self) -> Result<Vec<u8>, XPCError>: always Ok, the bytes
XPCObject_encode(x) ==
    U32ToLeBytes(ObjectMagic) \o U32ToLeBytes(ObjectVersion) \o encode_object(x)

-----------------------------------------------------------------------------
(* What the decoder uses of std: Cursor<&[u8]>, CString, str.              *)

Min(a, b) == IF a < b THEN a ELSE b

\* Cursor::remaining_slice: the bytes from min(pos, len) on; pos is 0-based
Remaining(data, pos) == SubSeq(data, Min(pos, Len(data)) + 1, Len(data))

\* Cursor::read_exact(n): succeeds iff n bytes remain
CanRead(data, pos, n) == Min(pos, Len(data)) + n <= Len(data)

\* Cursor::read_exact with a length read from the wire (`l as usize`)
CanReadU32(data, pos, l) == U32Fits(l, Len(data) - Min(pos, Len(data)))

Take(data, pos, n) == SubSeq(data, pos + 1, pos + n)

\* BufRead::read_until(0): the bytes up to and including the first 0, or all
RECURSIVE ReadUntilNul(_)
ReadUntilNul(rest) ==
    IF rest = <<>> THEN <<>>
    ELSE IF rest[1] = 0 THEN <<0>>
    ELSE <<rest[1]>> \o ReadUntilNul(Tail(rest))

\* A mutant of FromVecWithNul: 0 bytes before the last are let through.
FromVecWithNulLenient(v) == v # <<>> /\ v[Len(v)] = 0

\* CString::from_vec_with_nul: Ok iff the only 0 byte is the last byte
FromVecWithNul(v) ==
    /\ v # <<>>
    /\ v[Len(v)] = 0
    /\ \A i \in 1..(Len(v) - 1) : v[i] # 0

Cont(b) == b >= 128 /\ b <= 191

\* core::str::from_utf8 (CStr::to_str): is s[i..] well-formed UTF-8
RECURSIVE Utf8ValidFrom(_, _)
Utf8ValidFrom(s, i) ==
    IF i > Len(s) THEN TRUE
    ELSE LET b == s[i]
             n == Len(s) - i
         IN  CASE b < 128 -> Utf8ValidFrom(s, i + 1)
               [] b >= 194 /\ b <= 223 ->
                    n >= 1 /\ Cont(s[i + 1]) /\ Utf8ValidFrom(s, i + 2)
               [] b >= 224 /\ b <= 239 ->
                    /\ n >= 2
                    /\ CASE b = 224 -> s[i + 1] >= 160 /\ s[i + 1] <= 191
                         [] b = 237 -> s[i + 1] >= 128 /\ s[i + 1] <= 159
                         [] OTHER -> Cont(s[i + 1])
                    /\ Cont(s[i + 2])
                    /\ Utf8ValidFrom(s, i + 3)
               [] b >= 240 /\ b <= 244 ->
                    /\ n >= 3
                    /\ CASE b = 240 -> s[i + 1] >= 144 /\ s[i + 1] <= 191
                         [] b = 244 -> s[i + 1] >= 128 /\ s[i + 1] <= 143
                         [] OTHER -> Cont(s[i + 1])
                    /\ Cont(s[i + 2])
                    /\ Cont(s[i + 3])
                    /\ Utf8ValidFrom(s, i + 4)
               [] OTHER -> FALSE

\* CString::from_vec_with_nul(v)?.to_str()?.to_string(): "Ok" and the text,
\* or the error of the step that failed
CStringToString(v) ==
    IF ~FromVecWithNul(v) THEN [kind |-> "Err", msg |-> "FromVecWithNulError"]
    ELSE LET s == SubSeq(v, 1, Len(v) - 1)
         IN  IF Utf8ValidFrom(s, 1) THEN [kind |-> "Ok", val |-> s]
             ELSE [kind |-> "Err", msg |-> "Utf8Error"]

\* A mutant of IndexMapInsert: the entry is put in front.
IndexMapInsertFront(d, k, v) ==
    <<<<k, v>>>> \o SelectSeq(d, LAMBDA e : e[1] # k)

\* A mutant of IndexMapInsert: the entry is added whatever the keys held.
IndexMapPush(d, k, v) == Append(d, <<k, v>>)

\* IndexMap::insert: a known key keeps its place and takes the new value
RECURSIVE IndexMapInsert(_, _, _)
IndexMapInsert(d, k, v) ==
    IF d = <<>> THEN <<<<k, v>>>>
    ELSE IF d[1][1] = k THEN <<<<k, v>>>> \o Tail(d)
    ELSE <<d[1]>> \o IndexMapInsert(Tail(d), k, v)

-----------------------------------------------------------------------------
(* Decoder.  A cursor is the slice `data` and a 0-based position `pos`;    *)
(* a result is Ok (value, cursor position after it), Err (the `?` taken)   *)
(* or Panic.  `tags` lists the type tags read, in order: it is not part of *)
(* the program's result and only records what the decoder looked at.       *)

OkR(val, pos, tags) == [kind |-> "Ok", val |-> val, pos |-> pos, tags |-> tags]
ErrR(why, tags)     == [kind |-> "Err", msg |-> why, tags |-> tags]
PanicR(why)         == [kind |-> "Panic", msg |-> why]

\* Bool arm: `buf[0] != 0`
BoolFromByte(b) == b # 0

RECURSIVE decode_object(_, _)
RECURSIVE decode_items(_, _, _, _, _)
RECURSIVE decode_entries(_, _, _, _, _)

\* A mutant of decode_items: when the buffer ends where an element should
\* start, the loop stops and the elements read so far are returned.
decode_items_StopAtEof(data, pos, n, ret, tags) ==
    IF n = <<0, 0>> THEN OkR(Array(ret), pos, tags)
    ELSE LET r == decode_object(data, pos)
         IN  IF r.kind # "Ok"
             THEN IF r.tags = <<>> THEN OkR(Array(ret), pos, tags)
                  ELSE ErrR(r.msg, tags \o r.tags)
             ELSE decode_items(data, r.pos, U32Dec(n), Append(ret, r.val),
                               tags \o r.tags)

\* Array arm: `for _i in 0..num_entries`, with n iterations left
decode_items(data, pos, n, ret, tags) ==
    IF n = <<0, 0>> THEN OkR(Array(ret), pos, tags)
    ELSE LET r == decode_object(data, pos)
         IN  IF r.kind # "Ok" THEN ErrR(r.msg, tags \o r.tags)
             ELSE decode_items(data, r.pos, U32Dec(n), Append(ret, r.val),
                               tags \o r.tags)

\* Dictionary arm: `for _i in 0..num_entries`, with n iterations left
decode_entries(data, pos, n, ret, tags) ==
    IF n = <<0, 0>> THEN OkR(Dictionary(ret), pos, tags)
    ELSE LET key_buf == ReadUntilNul(Remaining(data, pos))
             key     == CStringToString(key_buf)
             padding == calculate_padding(Len(key.val) + 1)
             r       == decode_object(data, pos + Len(key_buf) + padding)
         IN  IF key.kind # "Ok" THEN ErrR(key.msg, tags)
             ELSE IF r.kind # "Ok" THEN ErrR(r.msg, tags \o r.tags)
             ELSE decode_entries(data, r.pos, U32Dec(n),
                                 IndexMapInsert(ret, key.val, r.val),
                                 tags \o r.tags)

\* fn decode_object(cursor) -> Result<Self, XPCError>
decode_object(data, pos) ==
    IF ~CanRead(data, pos, 4) THEN ErrR("UnexpectedEof", <<>>)
    ELSE
    LET tag      == U32FromLeBytes(Take(data, pos, 4))
        xpc_type == TryFromU32(tag)
        p        == pos + 4
        word     == U32FromLeBytes(Take(data, p, 4))   \* the next u32, if read
        eof      == ErrR("UnexpectedEof", <<tag>>)
    IN  CASE xpc_type = "Invalid" -> ErrR("Invalid XPCType", <<tag>>)
          [] xpc_type = "Dictionary" ->
               IF ~CanRead(data, p, 8) THEN eof
               ELSE decode_entries(data, p + 8, U32FromLeBytes(Take(data, p + 4, 4)),
                                   <<>>, <<tag>>)
          [] xpc_type = "Array" ->
               IF ~CanRead(data, p, 8) THEN eof
               ELSE decode_items(data, p + 8, U32FromLeBytes(Take(data, p + 4, 4)),
                                 <<>>, <<tag>>)
          [] xpc_type = "Int64" ->
               IF ~CanRead(data, p, 8) THEN eof
               ELSE OkR(Int64(U64FromLeBytes(Take(data, p, 8))), p + 8, <<tag>>)
          [] xpc_type = "UInt64" ->
               IF ~CanRead(data, p, 8) THEN eof
               ELSE OkR(UInt64(U64FromLeBytes(Take(data, p, 8))), p + 8, <<tag>>)
          [] xpc_type = "String" ->
               IF ~CanRead(data, p, 4) THEN eof
               ELSE IF ~CanReadU32(data, p + 4, word) THEN eof
               ELSE LET l       == word[1]
                        padding == calculate_padding(l)
                        key     == CStringToString(Take(data, p + 4, l))
                    IN  IF key.kind # "Ok" THEN ErrR(key.msg, <<tag>>)
                        ELSE OkR(String(key.val), p + 4 + l + padding, <<tag>>)
          [] xpc_type = "Bool" ->
               IF ~CanRead(data, p, 4) THEN eof
               ELSE OkR(Bool(BoolFromByte(Take(data, p, 4)[1])), p + 4, <<tag>>)
          [] xpc_type = "Data" ->
               IF ~CanRead(data, p, 4) THEN eof
               ELSE IF ~CanReadU32(data, p + 4, word) THEN eof
               ELSE LET l       == word[1]
                        padding == calculate_padding(l)
                    IN  OkR(Data(Take(data, p + 4, l)), p + 4 + l + padding, <<tag>>)
          [] xpc_type = "Uuid" ->
               IF ~CanRead(data, p, 16) THEN eof
               ELSE OkR(Uuid(Take(data, p, 16)), p + 16, <<tag>>)

\* A mutant of VersionMismatch: any version is accepted.
VersionUnchecked(b) == FALSE

\* `if version != 0x00000005`
VersionMismatch(b) == U32FromLeBytes(SubSeq(b, 5, 8)) # ObjectVersion

\* pub fn decode(buf: &[u8]) -> Result<Self, XPCError>; buf[0..4] and
\* buf[4..8] panic when the slice is shorter
XPCObject_decode(b) ==
    IF Len(b) < 4 THEN PanicR("range end index 4 out of range for slice")
    ELSE IF U32FromLeBytes(SubSeq(b, 1, 4)) # ObjectMagic
         THEN ErrR("Invalid magic for XPCObject", <<>>)
    ELSE IF Len(b) < 8 THEN PanicR("range end index 8 out of range for slice")
    ELSE IF VersionMismatch(b)
         THEN ErrR("Unexpected version for XPCObject", <<>>)
    ELSE decode_object(SubSeq(b, 9, Len(b)), 0)

-----------------------------------------------------------------------------
(* Message framing.  Option<T> is <<>> (None) or <<v>> (Some(v)).          *)

None    == <<>>
Some(v) == <<v>>

XPCMessage(flags, message, message_id) ==
    [flags |-> flags, message |-> message, message_id |-> message_id]

\* the fixed header: magic, flags, body length, message id
HeaderLen == 24

U64Zero == <<0, 0, 0, 0>>

\* `if data.len() < 24`
TooShort(data) == Len(data) < HeaderLen

\* A mutant of MagicMismatch: the magic is not compared.
MagicUnchecked(data) == FALSE

\* `if magic != 0x29b00b92_u32`
MagicMismatch(data) == U32FromLeBytes(SubSeq(data, 1, 4)) # MessageMagic

\* A mutant of BodyLenExceeds: the declared length is trusted.
BodyLenTrusted(sum, len) == FALSE

\* `body_len + 24 > data.len().try_into()?`, sum being body_len + 24
BodyLenExceeds(sum, len) == U64Gt(sum, UsizeAsU64(len))

\* A mutant of MessageIdField: the id is read where the body length lies.
MessageIdFieldAtLen(data) == U64FromLeBytes(SubSeq(data, 9, 16))

\* `u64::from_le_bytes(data[16..24])`
MessageIdField(data) == U64FromLeBytes(SubSeq(data, 17, 24))

\* pub fn decode(data: &[u8]) -> Result<XPCMessage, XPCError>, on a target
\* with 64-bit usize; oc: overflow checks are compiled in
XPCMessage_decode(data, oc) ==
    IF TooShort(data) THEN ErrR("XPCMessage must be at least 24 bytes.", <<>>)
    ELSE IF MagicMismatch(data) THEN ErrR("XPCMessage magic is invalid.", <<>>)
    ELSE
    LET flags      == U32FromLeBytes(SubSeq(data, 5, 8))
        body_len   == U64FromLeBytes(SubSeq(data, 9, 16))
        message_id == MessageIdField(data)
        sum        == U64Add(body_len, <<HeaderLen, 0, 0, 0>>)
        \* data[24..24 + body_len as usize]: the slice's own bounds check
        beyond     == sum.v[2] # 0 \/ sum.v[3] # 0 \/ sum.v[4] # 0
                        \/ sum.v[1] > Len(data)
        body       == XPCObject_decode(SubSeq(data, HeaderLen + 1, sum.v[1]))
    IN  IF sum.carry /\ oc THEN PanicR("attempt to add with overflow")
        ELSE IF BodyLenExceeds(sum.v, Len(data))
             THEN ErrR("XPCMessage body length given is incorrect.", <<>>)
        ELSE IF body_len = U64Zero
             THEN [kind |-> "Ok", flags |-> flags, message |-> None,
                   message_id |-> Some(message_id)]
        \* the wrapped end lies below 24: data[24..end] panics
        ELSE IF sum.carry THEN PanicR("slice index starts at 24 but ends before it")
        ELSE IF beyond THEN PanicR("range end index out of range for slice")
        ELSE IF body.kind = "Panic" THEN body
        ELSE IF body.kind = "Err" THEN ErrR(body.msg, body.tags)
        ELSE [kind |-> "Ok", flags |-> flags, message |-> Some(body.val),
              message_id |-> Some(message_id)]

\* A mutant of XPCMessage_encode: the length field counts the header too.
XPCMessage_encode_TotalLen(self, message_id) ==
    U32ToLeBytes(MessageMagic) \o U32ToLeBytes(self.flags) \o
    IF self.message # None
    THEN LET body == XPCObject_encode(self.message[1])
         IN  U64ToLeBytes(UsizeAsU64(Len(body) + HeaderLen))
               \o U64ToLeBytes(message_id) \o body
    ELSE U64ToLeBytes(U64Zero) \o U64ToLeBytes(message_id)

\* A mutant of XPCMessage_encode: the struct's own message_id is written
\* when it has one.
XPCMessage_encode_OwnId(self, message_id) ==
    LET written == IF self.message_id # None THEN self.message_id[1] ELSE message_id
    IN  U32ToLeBytes(MessageMagic) \o U32ToLeBytes(self.flags) \o
        IF self.message # None
        THEN LET body == XPCObject_encode(self.message[1])
             IN  U64ToLeBytes(UsizeAsU64(Len(body))) \o U64ToLeBytes(written) \o body
        ELSE U64ToLeBytes(U64Zero) \o U64ToLeBytes(written)

\* pub fn encode(self, message_id: u64) -> Result<Vec<u8>, XPCError>
XPCMessage_encode(self, message_id) ==
    U32ToLeBytes(MessageMagic) \o U32ToLeBytes(self.flags) \o
    IF self.message # None
    THEN LET body == XPCObject_encode(self.message[1])
         IN  U64ToLeBytes(UsizeAsU64(Len(body))) \o U64ToLeBytes(message_id) \o body
    ELSE U64ToLeBytes(U64Zero) \o U64ToLeBytes(message_id)

-----------------------------------------------------------------------------
(* Property lists (plist::Value).  A value is a record of the shape of an  *)
(* XPCObject value.  An Integer holds any value from i64::MIN to u64::MAX: *)
(* w is its 64 bits and b says that it is above i64::MAX (then read w as   *)
(* unsigned, otherwise as a two's complement i64).                         *)

PBoolean(b)    == Value("Boolean", b, <<>>, <<>>, <<>>, <<>>)
PData(d)       == Value("Data", FALSE, <<>>, d, <<>>, <<>>)
PString(s)     == Value("String", FALSE, <<>>, s, <<>>, <<>>)
PArray(items)  == Value("Array", FALSE, <<>>, <<>>, items, <<>>)
PDictionary(d) == Value("Dictionary", FALSE, <<>>, <<>>, <<>>, d)
PDate          == Value("Date", FALSE, <<>>, <<>>, <<>>, <<>>)
PReal          == Value("Real", FALSE, <<>>, <<>>, <<>>, <<>>)
PUid           == Value("Uid", FALSE, <<>>, <<>>, <<>>, <<>>)

\* impl From<i64> for plist::Integer
IntegerFromI64(v) == Value("Integer", FALSE, v, <<>>, <<>>, <<>>)

\* impl From<u64> for plist::Integer
IntegerFromU64(v) == Value("Integer", v[4] >= Limb \div 2, v, <<>>, <<>>, <<>>)

\* A mutant of as_signed: the 64 bits are taken as they are.
as_signed_Wrapping(v) == Some(v.w)

\* plist::Integer::as_signed: None above i64::MAX
as_signed(v) == IF v.b THEN None ELSE Some(v.w)

\* A mutant of PlistDictionaryInsert: the entry is put in front.
PlistDictionaryInsertFront(d, k, v) ==
    <<<<k, v>>>> \o SelectSeq(d, LAMBDA e : e[1] # k)

\* plist::Dictionary::insert: an IndexMap underneath
PlistDictionaryInsert(d, k, v) == IndexMapInsert(d, k, v)

RECURSIVE XPCObject_from(_)
RECURSIVE from_items(_, _, _)
RECURSIVE from_entries(_, _, _)

\* `v.iter().map(|item| XPCObject::from(item.clone())).collect()` from
\* element i on, ret holding the converted elements
from_items(v, i, ret) ==
    IF i > Len(v) THEN [kind |-> "Ok", val |-> Array(ret)]
    ELSE LET r == XPCObject_from(v[i])
         IN  IF r.kind # "Ok" THEN r
             ELSE from_items(v, i + 1, Append(ret, r.val))

\* `for (k, v) in v.into_iter() { dict.insert(k.clone(), XPCObject::from(v)); }`
from_entries(v, i, dict) ==
    IF i > Len(v) THEN [kind |-> "Ok", val |-> Dictionary(dict)]
    ELSE LET r == XPCObject_from(v[i][2])
         IN  IF r.kind # "Ok" THEN r
             ELSE from_entries(v, i + 1, IndexMapInsert(dict, v[i][1], r.val))

\* impl From<plist::Value> for XPCObject: Ok and the value, or the panic
XPCObject_from(value) ==
    CASE value.t = "Array" -> from_items(value.items, 1, <<>>)
      [] value.t = "Dictionary" -> from_entries(value.entries, 1, <<>>)
      [] value.t = "Boolean" -> [kind |-> "Ok", val |-> Bool(value.b)]
      [] value.t = "Data" -> [kind |-> "Ok", val |-> Data(value.s)]
      [] value.t = "Date" -> PanicR("not yet implemented")
      [] value.t = "Real" -> PanicR("not yet implemented")
      [] value.t = "Integer" ->
           LET s == as_signed(value)
           IN  IF s = None THEN PanicR("called Option::unwrap() on a None value")
               ELSE [kind |-> "Ok", val |-> Int64(s[1])]
      [] value.t = "String" -> [kind |-> "Ok", val |-> String(value.s)]
      [] value.t = "Uid" -> PanicR("not yet implemented")
      [] OTHER -> PanicR("not yet implemented")

\* the lower-case hexadecimal digit n, in ASCII
HexDigit(n) == IF n < 10 THEN 48 + n ELSE 87 + n

\* uuid.to_string(): 8-4-4-4-12 lower-case hexadecimal digits
RECURSIVE UuidToString(_, _)
UuidToString(u, i) ==
    IF i > Len(u) THEN <<>>
    ELSE (IF i \in {5, 7, 9, 11} THEN <<45>> ELSE <<>>)
           \o <<HexDigit(u[i] \div 16), HexDigit(u[i] % 16)>>
           \o UuidToString(u, i + 1)

RECURSIVE to_plist(_)
RECURSIVE to_plist_entries(_, _, _)

\* `for (k, v) in v.into_iter() { dict.insert(k.clone(), v.to_plist()); }`
to_plist_entries(v, i, dict) ==
    IF i > Len(v) THEN dict
    ELSE to_plist_entries(v, i + 1,
                          PlistDictionaryInsert(dict, v[i][1], to_plist(v[i][2])))

\* pub fn to_plist(&self) -> plist::Value
to_plist(self) ==
    CASE self.t = "Bool" -> PBoolean(self.b)
      [] self.t = "Uuid" -> PString(UuidToString(self.s, 1))
      [] self.t = "UInt64" -> IntegerFromU64(self.w)
      [] self.t = "Int64" -> IntegerFromI64(self.w)
      [] self.t = "String" -> PString(self.s)
      [] self.t = "Data" -> PData(self.s)
      [] self.t = "Array" -> PArray([i \in 1..Len(self.items) |-> to_plist(self.items[i])])
      [] self.t = "Dictionary" -> PDictionary(to_plist_entries(self.entries, 1, <<>>))

-----------------------------------------------------------------------------
(* Inputs.                                                                 *)

Str_empty == <<>>
Str_a     == <<97>>                \* "a"
Str_bb    == <<98, 98>>            \* "bb"
Str_hi    == <<104, 105>>          \* "hi"
Str_e_x   == <<195, 169, 120>>     \* U+00E9 then "x"
Str_a0b   == <<97, 0, 98>>         \* "a\0b": a String may hold U+0000
Str_abcd  == <<97, 98, 99, 100>>   \* "abcd"

I64_one       == <<1, 0, 0, 0>>
I64_minus_one == <<65535, 65535, 65535, 65535>>
U64_two       == <<2, 0, 0, 0>>
U64_max       == <<65535, 65535, 65535, 65535>>

\* 00112233-4455-6677-8899-aabbccddeeff
Uuid_1 == [i \in 1..16 |-> 17 * (i - 1)]

Leaves ==
    { Bool(TRUE), Bool(FALSE), Int64(I64_one), Int64(I64_minus_one),
      UInt64(U64_two), String(Str_empty), String(Str_hi), String(Str_e_x),
      String(Str_a0b), String(Str_a), String(Str_abcd), Data(<<>>), Data(<<255>>), Data(<<1, 2, 3, 4>>),
      Uuid(Uuid_1) }

\* the values put inside containers
ElemLeaves ==
    { Bool(TRUE), Int64(I64_one), UInt64(U64_two), String(Str_hi),
      Data(<<255>>), Uuid(Uuid_1) }

Keys == { Str_a, Str_bb }

SeqsUpTo(S, n) == UNION { [1..k -> S] : k \in 0..n }

\* the states of an IndexMap over Keys: pairwise-distinct keys, in any order
DictsUpTo(S, n) ==
    { d \in SeqsUpTo(Keys \X S, n) :
        \A i, j \in 1..Len(d) : d[i][1] = d[j][1] => i = j }

Containers(S) ==
    { Array(items) : items \in SeqsUpTo(S, MaxElems) }
      \cup { Dictionary(d) : d \in DictsUpTo(S, MaxElems) }

\* the containers nesting starts from
Seeds ==
    { Array(<<>>),
      Array(<<Bool(TRUE), String(Str_hi)>>),
      Array(<<Uuid(Uuid_1)>>),
      Dictionary(<<<<Str_a, Int64(I64_one)>>, <<Str_bb, UInt64(U64_two)>>>>) }

\* containers nested to depth d: a container of depth d - 1 as the only
\* element of an Array, as the first of two elements of an Array, or as the
\* value of the one entry of a Dictionary
RECURSIVE Nested(_)
Nested(d) ==
    IF d <= 1 THEN Seeds
    ELSE LET inner == Nested(d - 1)
         IN  inner \cup { Array(<<c>>) : c \in inner }
                   \cup { Array(<<c, String(Str_hi)>>) : c \in inner }
                   \cup { Dictionary(<<<<Str_a, c>>>>) : c \in inner }

Objects == Leaves \cup Containers(ElemLeaves) \cup Nested(MaxDepth)

I64_max == <<65535, 65535, 65535, 32767>>
U64_2_63 == <<0, 0, 0, 32768>>         \* i64::MAX + 1

PLeaves ==
    { PBoolean(TRUE), PBoolean(FALSE), PData(<<>>), PData(<<255>>),
      PString(Str_empty), PString(Str_hi), PString(Str_a0b),
      IntegerFromI64(I64_one), IntegerFromI64(I64_minus_one),
      IntegerFromI64(I64_max), IntegerFromU64(U64_two),
      IntegerFromU64(U64_2_63), IntegerFromU64(U64_max),
      PDate, PReal, PUid }

\* the values put inside property-list containers
PElemLeaves ==
    { PBoolean(TRUE), IntegerFromI64(I64_minus_one), IntegerFromU64(U64_max),
      PString(Str_hi), PDate }

PContainers(S) ==
    { PArray(items) : items \in SeqsUpTo(S, MaxElems) }
      \cup { PDictionary(d) : d \in DictsUpTo(S, MaxElems) }

\* the property-list containers nesting starts from
PSeeds ==
    { PArray(<<>>),
      PArray(<<PData(<<255>>), PString(Str_hi)>>),
      PArray(<<PBoolean(FALSE), PUid>>),
      PArray(<<PReal>>),
      PDictionary(<<<<Str_bb, IntegerFromI64(I64_one)>>, <<Str_a, PBoolean(TRUE)>>>>) }

RECURSIVE PNested(_)
PNested(d) ==
    IF d <= 1 THEN PSeeds
    ELSE LET inner == PNested(d - 1)
         IN  inner \cup { PArray(<<c>>) : c \in inner }
                   \cup { PArray(<<PString(Str_hi), c>>) : c \in inner }
                   \cup { PDictionary(<<<<Str_a, c>>>>) : c \in inner }

Plists == PLeaves \cup PContainers(PElemLeaves) \cup PNested(MaxDepth)

\* the byte written by Poke
PokeBytes == { 255 }

\* header words tried in place of the object-stream magic and version
HeaderWords == { ObjectMagic, ObjectVersion, MessageMagic, <<0, 0>> }

\* what follows the header of a raw object stream: nothing, an encoded
\* value, a String of declared length 0, a Dictionary of one entry whose key
\* "ab" has no NUL after it, a Dictionary of two entries with the same key
\* "a"
RawValues ==
    { <<>>,
      encode_object(Int64(I64_one)),
      U32ToLeBytes(TagString) \o U32ToLeBytes(<<0, 0>>),
      U32ToLeBytes(TagDictionary) \o U32ToLeBytes(<<0, 0>>)
        \o U32ToLeBytes(<<1, 0>>) \o <<97, 98>>,
      U32ToLeBytes(TagDictionary) \o U32ToLeBytes(<<0, 0>>)
        \o U32ToLeBytes(<<2, 0>>)
        \o <<97, 0, 0, 0>> \o encode_object(Int64(I64_one))
        \o <<97, 0, 0, 0>> \o encode_object(Int64(I64_minus_one)) }

\* raw object streams: two header words, then one of RawValues
RawStreams ==
    { U32ToLeBytes(w1) \o U32ToLeBytes(w2) \o rest :
        w1 \in HeaderWords, w2 \in HeaderWords, rest \in RawValues }

Flags == { <<1, 0>>, <<256, 64>> }    \* AlwaysSet; DataFlag | InitHandshake

\* the flags combined and compared: the well-known ones, and Custom of 0,
\* of each well-known bit, of 0x00000101, 0x00410101, 0x80000000, 0xffffffff
XPCFlags ==
    { AlwaysSet, DataFlag, WantingReply, InitHandshake } \cup
    { Custom(w) : w \in { <<0, 0>>, <<1, 0>>, <<256, 0>>, <<0, 1>>, <<0, 64>>,
                          <<257, 0>>, <<257, 65>>, <<0, 32768>>,
                          <<65535, 65535>> } }

Ids == { <<42, 0, 0, 0>>, U64_max }

Messages ==
    { XPCMessage(f, m, mi) :
        f \in Flags,
        m \in {None} \cup { Some(x) : x \in Leaves \cup Seeds },
        mi \in { None, Some(<<7, 0, 0, 0>>) } }

\* declared body lengths: 0, 1..7, 8, 20, 21, 2^16, 2^32, 2^64-25, 2^64-24,
\* 2^64-1
BodyLens ==
    { U64Zero, <<1, 0, 0, 0>>, <<4, 0, 0, 0>>, <<7, 0, 0, 0>>, <<8, 0, 0, 0>>,
      <<20, 0, 0, 0>>, <<21, 0, 0, 0>>, <<0, 1, 0, 0>>, <<0, 0, 1, 0>>,
      <<65511, 65535, 65535, 65535>>, <<65512, 65535, 65535, 65535>>, U64_max }

\* what follows the header of a raw frame: nothing, an encoded object, an
\* object stream of another version, an encoded object and one more byte
Payloads ==
    { <<>>,
      XPCObject_encode(Int64(I64_one)),
      U32ToLeBytes(ObjectMagic) \o U32ToLeBytes(<<4, 0>>) \o encode_object(Bool(TRUE)),
      XPCObject_encode(String(Str_hi)) \o <<170>> }

-----------------------------------------------------------------------------
(* The state machine: a caller that encodes, damages and decodes buffers.  *)

NotDecoded == [kind |-> "None"]

\* a call of the codec: op is "encode" (x.encode()), "decode"
\* (XPCObject::decode(&b)), "msg_encode" (XPCMessage{flags, message: x,
\* message_id: None}.encode(id)) or "msg_decode" (XPCMessage::decode(&b))
Call(op, x, flags, message_id, b) ==
    [op |-> op, x |-> x, flags |-> flags, id |-> message_id, b |-> b]

NoCall == Call("none", None, <<0, 0>>, U64Zero, <<>>)

\* pair_gui: no command handled yet
NothingHandled == [cmd |-> "none", failed |-> FALSE, events |-> <<>>]

\* a thread: where it is in its call, the call, and what the call returned
Idle == [pc |-> "idle", call |-> NoCall, res |-> NotDecoded]

Init ==
    /\ obj = None
    /\ msg = None
    /\ id = U64Zero
    /\ buf = <<>>
    /\ made = "nothing"
    /\ out = NotDecoded
    /\ pad_len = 0
    /\ pad_out = 0
    /\ call = <<>>
    /\ got = <<>>
    /\ th = [t \in 1..NThreads |-> Idle]
    /\ heap = [t \in 1..NThreads |-> <<>>]
    /\ overflow_checks = FALSE
    /\ rx = <<>>
    /\ gui_alive = TRUE
    /\ sent = 0
    /\ worker = "recv"
    /\ last = NothingHandled
    /\ handled = 0

\* x.encode()
Encode(x) ==
    /\ made = "nothing"
    /\ obj' = Some(x)
    /\ buf' = XPCObject_encode(x)
    /\ made' = "encoded"
    /\ UNCHANGED <<msg, id, out, pad_len, pad_out, call, got,
                   th, heap, overflow_checks, gui>>

\* the transport hands over a raw object stream
Raw(b) ==
    /\ made = "nothing"
    /\ buf' = b
    /\ made' = "raw"
    /\ UNCHANGED <<obj, msg, id, out, pad_len, pad_out, call, got,
                   th, heap, overflow_checks, gui>>

\* the buffer is cut to its first n bytes
Truncate(n) ==
    /\ made \in {"encoded", "raw"}
    /\ out = NotDecoded
    /\ n < Len(buf)
    /\ buf' = SubSeq(buf, 1, n)
    /\ made' = IF made = "encoded" THEN "truncated" ELSE "raw_truncated"
    /\ UNCHANGED <<obj, msg, id, out, pad_len, pad_out, call, got,
                   th, heap, overflow_checks, gui>>

\* byte i of the buffer is overwritten
Poke(i, b) ==
    /\ made = "encoded"
    /\ out = NotDecoded
    /\ buf[i] # b
    /\ buf' = [buf EXCEPT ![i] = b]
    /\ made' = "poked"
    /\ UNCHANGED <<obj, msg, id, out, pad_len, pad_out, call, got,
                   th, heap, overflow_checks, gui>>

\* XPCObject::decode(&buf)
Decode ==
    /\ made \in {"encoded", "raw", "truncated", "raw_truncated", "poked"}
    /\ out = NotDecoded
    /\ out' = XPCObject_decode(buf)
    /\ UNCHANGED <<obj, msg, id, buf, made, pad_len, pad_out, call, got,
                   th, heap, overflow_checks, gui>>

\* m.encode(message_id)
EncodeMessage(m, message_id) ==
    /\ made = "nothing"
    /\ msg' = Some(m)
    /\ id' = message_id
    /\ buf' = XPCMessage_encode(m, message_id)
    /\ made' = "msg_encoded"
    /\ UNCHANGED <<obj, out, pad_len, pad_out, call, got,
                   th, heap, overflow_checks, gui>>

\* the transport hands over a raw frame: a 24-byte header and what follows
RawMessage(magic, flags, body_len, message_id, payload) ==
    /\ made = "nothing"
    /\ buf' = U32ToLeBytes(magic) \o U32ToLeBytes(flags) \o U64ToLeBytes(body_len)
                \o U64ToLeBytes(message_id) \o payload
    /\ made' = "msg_raw"
    /\ UNCHANGED <<obj, msg, id, out, pad_len, pad_out, call, got,
                   th, heap, overflow_checks, gui>>

\* the frame is cut to its first n bytes
TruncateMessage(n) ==
    /\ made \in {"msg_encoded", "msg_raw"}
    /\ out = NotDecoded
    /\ n < Len(buf)
    /\ buf' = SubSeq(buf, 1, n)
    /\ made' = IF made = "msg_encoded" THEN "msg_truncated" ELSE "msg_raw_truncated"
    /\ UNCHANGED <<obj, msg, id, out, pad_len, pad_out, call, got,
                   th, heap, overflow_checks, gui>>

\* the body-length field of an encoded frame is overwritten
SetBodyLen(v) ==
    /\ made = "msg_encoded"
    /\ out = NotDecoded
    /\ U64FromLeBytes(SubSeq(buf, 9, 16)) # v
    /\ buf' = SubSeq(buf, 1, 8) \o U64ToLeBytes(v) \o SubSeq(buf, 17, Len(buf))
    /\ made' = "msg_relabelled"
    /\ UNCHANGED <<obj, msg, id, out, pad_len, pad_out, call, got,
                   th, heap, overflow_checks, gui>>

\* XPCMessage::decode(&buf), in a build with (oc) or without overflow checks
DecodeMessage ==
    /\ made \in {"msg_encoded", "msg_raw", "msg_truncated", "msg_raw_truncated",
                 "msg_relabelled"}
    /\ out = NotDecoded
    /\ \E oc \in BOOLEAN : out' = XPCMessage_decode(buf, oc)
    /\ UNCHANGED <<obj, msg, id, buf, made, pad_len, pad_out, call, got,
                   th, heap, overflow_checks, gui>>

\* XPCObject::from(p)
FromPlist(p) ==
    /\ made = "nothing"
    /\ call' = p
    /\ got' = XPCObject_from(p)
    /\ made' = "from_plist"
    /\ UNCHANGED <<obj, msg, id, buf, out, pad_len, pad_out,
                   th, heap, overflow_checks, gui>>

\* x.to_plist()
ToPlist(x) ==
    /\ made = "nothing"
    /\ call' = x
    /\ got' = to_plist(x)
    /\ made' = "to_plist"
    /\ UNCHANGED <<obj, msg, id, buf, out, pad_len, pad_out,
                   th, heap, overflow_checks, gui>>

\* a | b and a == b
FlagOps(a, b) ==
    /\ made = "nothing"
    /\ call' = <<a, b>>
    /\ got' = [bitor |-> XPCFlag_bitor(a, b), eq |-> XPCFlag_eq(a, b)]
    /\ made' = "flags"
    /\ UNCHANGED <<obj, msg, id, buf, out, pad_len, pad_out,
                   th, heap, overflow_checks, gui>>

\* Self::calculate_padding(n)
Pad(n) ==
    /\ made = "nothing"
    /\ pad_len' = n
    /\ pad_out' = calculate_padding(n)
    /\ made' = "padded"
    /\ UNCHANGED <<obj, msg, id, buf, out, call, got,
                   th, heap, overflow_checks, gui>>

Next ==
    \/ \E p \in Plists : FromPlist(p)
    \/ \E x \in Objects : ToPlist(x)
    \/ \E a \in XPCFlags, b \in XPCFlags : FlagOps(a, b)
    \/ \E n \in 0..MaxPadLen : Pad(n)
    \/ \E x \in Objects : Encode(x)
    \/ \E b \in RawStreams : Raw(b)
    \/ \E n \in 0..(Len(buf) - 1) : Truncate(n)
    \/ \E i \in 1..Len(buf), b \in PokeBytes : Poke(i, b)
    \/ Decode
    \/ \E m \in Messages, message_id \in Ids : EncodeMessage(m, message_id)
    \/ \E magic \in {MessageMagic, ObjectMagic}, flags \in Flags,
          body_len \in BodyLens, message_id \in Ids, payload \in Payloads :
          RawMessage(magic, flags, body_len, message_id, payload)
    \/ \E n \in 0..(Len(buf) - 1) : TruncateMessage(n)
    \/ \E v \in BodyLens : SetBodyLen(v)
    \/ DecodeMessage

Spec == Init /\ [][Next]_vars

-----------------------------------------------------------------------------
(* Several threads call the codec at the same time.  A call works on its   *)
(* own arguments and, when it encodes, on the Vec it allocates; the steps  *)
(* of different threads interleave in any order.  A thread that panics     *)
(* unwinds alone.                                                          *)

\* the calls the threads make
Calls ==
    { Call("encode", Some(x), <<0, 0>>, U64Zero, <<>>) :
        x \in { Bool(TRUE), Array(<<Int64(I64_one), String(Str_hi)>>) } }
    \cup { Call("decode", None, <<0, 0>>, U64Zero, b) :
        b \in { XPCObject_encode(Int64(I64_one)), <<66, 55, 19>>,
                SubSeq(XPCObject_encode(String(Str_hi)), 1, 17) } }
    \cup { Call("msg_encode", x, <<1, 0>>, <<42, 0, 0, 0>>, <<>>) :
        x \in { None, Some(String(Str_hi)) } }
    \cup { Call("msg_decode", None, <<0, 0>>, U64Zero, b) :
        b \in { XPCMessage_encode(XPCMessage(<<1, 0>>, Some(Int64(I64_one)), None),
                                  <<42, 0, 0, 0>>),
                U32ToLeBytes(MessageMagic) \o U32ToLeBytes(<<1, 0>>)
                  \o U64ToLeBytes(U64_max) \o U64ToLeBytes(U64Zero) } }

Encodes(c) == c.op \in {"encode", "msg_encode"}

\* A mutant of NewVec: every call builds in the same buffer.
NewVecShared(t) == 1

\* `Vec::new()` / `to_vec()`: the buffer of the call of thread t is its own
NewVec(t) == t

\* what call c returns when it runs alone
Alone(c) ==
    CASE c.op = "encode" -> [kind |-> "Ok", bytes |-> XPCObject_encode(c.x[1])]
      [] c.op = "decode" -> XPCObject_decode(c.b)
      [] c.op = "msg_encode" ->
           [kind |-> "Ok",
            bytes |-> XPCMessage_encode(XPCMessage(c.flags, c.x, None), c.id)]
      [] c.op = "msg_decode" -> XPCMessage_decode(c.b, overflow_checks)

\* thread t enters call c; an encode call allocates its buffer
Begin(t, c) ==
    /\ th[t].pc = "idle"
    /\ th' = [th EXCEPT ![t] = [pc |-> "header", call |-> c, res |-> NotDecoded]]
    /\ heap' = IF Encodes(c) THEN [heap EXCEPT ![NewVec(t)] = <<>>] ELSE heap
    /\ UNCHANGED <<codec, overflow_checks, gui>>

\* an encode call writes its first two words; a decode call has its slice
WriteHeader(t) ==
    /\ th[t].pc = "header"
    /\ th' = [th EXCEPT ![t].pc = "body"]
    /\ heap' =
         CASE th[t].call.op = "encode" ->
                [heap EXCEPT ![NewVec(t)] =
                   @ \o U32ToLeBytes(ObjectMagic) \o U32ToLeBytes(ObjectVersion)]
           [] th[t].call.op = "msg_encode" ->
                [heap EXCEPT ![NewVec(t)] =
                   @ \o U32ToLeBytes(MessageMagic) \o U32ToLeBytes(th[t].call.flags)]
           [] OTHER -> heap
    /\ UNCHANGED <<codec, overflow_checks, gui>>

\* an encode call writes the rest and returns its buffer; a decode call
\* reads its slice and returns
Finish(t) ==
    /\ th[t].pc = "body"
    /\ LET c == th[t].call
           rest ==
             CASE c.op = "encode" -> encode_object(c.x[1])
               [] c.op = "msg_encode" ->
                    SubSeq(XPCMessage_encode(XPCMessage(c.flags, c.x, None), c.id),
                           9, Len(XPCMessage_encode(XPCMessage(c.flags, c.x, None), c.id)))
               [] OTHER -> <<>>
           mine == heap[NewVec(t)] \o rest
       IN  /\ heap' = IF Encodes(c) THEN [heap EXCEPT ![NewVec(t)] = mine] ELSE heap
           /\ th' = [th EXCEPT ![t].pc = "done",
                               ![t].res =
                                 IF Encodes(c) THEN [kind |-> "Ok", bytes |-> mine]
                                 ELSE Alone(c)]
    /\ UNCHANGED <<codec, overflow_checks, gui>>

\* the caller takes the result, for an encode call the buffer with it, and
\* the thread is free for another call
Return(t) ==
    /\ th[t].pc = "done"
    /\ th' = [th EXCEPT ![t] = Idle]
    /\ heap' = IF Encodes(th[t].call) THEN [heap EXCEPT ![NewVec(t)] = <<>>] ELSE heap
    /\ UNCHANGED <<codec, overflow_checks, gui>>

InitConc ==
    /\ obj = None
    /\ msg = None
    /\ id = U64Zero
    /\ buf = <<>>
    /\ made = "nothing"
    /\ out = NotDecoded
    /\ pad_len = 0
    /\ pad_out = 0
    /\ call = <<>>
    /\ got = <<>>
    /\ th = [t \in 1..NThreads |-> Idle]
    /\ heap = [t \in 1..NThreads |-> <<>>]
    /\ overflow_checks \in BOOLEAN
    /\ rx = <<>>
    /\ gui_alive = TRUE
    /\ sent = 0
    /\ worker = "recv"
    /\ last = NothingHandled
    /\ handled = 0

NextConc ==
    \/ \E t \in 1..NThreads, c \in Calls : Begin(t, c)
    \/ \E t \in 1..NThreads : WriteHeader(t)
    \/ \E t \in 1..NThreads : Finish(t)
    \/ \E t \in 1..NThreads : Return(t)

SpecConc == InitConc /\ [][NextConc]_vars

-----------------------------------------------------------------------------
(* pair_gui: the GUI thread sends Commands over an unbounded channel to    *)
(* the worker thread, which runs worker_loop and answers with GuiEvents.   *)

\* a Command; container and documents are Some (TRUE) or None (FALSE)
Command(c, container, documents) ==
    [cmd |-> c, container |-> container, documents |-> documents]

Commands ==
    {Command(c, FALSE, FALSE) : c \in {"Refresh", "Pair", "GetDeviceInfo"}}
        \cup {Command("AfcList", co, d) : co, d \in BOOLEAN}

\* what handling one command did: did it fail, which events did it send
Handled(c, failed, events) ==
    [cmd |-> c, failed |-> failed, events |-> events]

\* the steps of handle_afc that can fail, in the order they are taken
AfcSteps(c) ==
    IF c.container \/ c.documents
    THEN <<"mux", "get_device", "connect", "vend", "list_dir">>
    ELSE <<"mux", "get_device", "connect", "list_dir">>

\* the steps of handle_afc whose Result is unwrapped
AfcUnwrapped == {"mux", "get_device", "connect", "vend"}

\* the GUI sends a command; the send fails, and the GUI ignores it, when
\* the worker's receiver is gone
Send(c) ==
    /\ gui_alive
    /\ sent < MaxCmds
    /\ sent' = sent + 1
    /\ rx' = IF worker = "recv" THEN Append(rx, c) ELSE rx
    /\ UNCHANGED <<codec, th, heap, overflow_checks, gui_alive, worker,
                   last, handled>>

\* the GUI goes away and drops its sender
CloseGui ==
    /\ gui_alive
    /\ gui_alive' = FALSE
    /\ UNCHANGED <<codec, th, heap, overflow_checks, rx, sent, worker,
                   last, handled>>

\* rx.recv() gives Ok(cmd): the worker is in its loop and a command waits
Recv(c) ==
    /\ worker = "recv"
    /\ rx # <<>>
    /\ Head(rx) = c

\* the handler returned: back to rx.recv()
Handle(h) ==
    /\ rx' = Tail(rx)
    /\ last' = h
    /\ handled' = handled + 1
    /\ UNCHANGED <<codec, th, heap, overflow_checks, gui_alive, sent, worker>>

\* the handler panicked: the worker thread unwinds, the receiver is dropped
\* with whatever it still holds
Panic(h) ==
    /\ rx' = <<>>
    /\ last' = h
    /\ worker' = "panicked"
    /\ UNCHANGED <<codec, th, heap, overflow_checks, gui_alive, sent, handled>>

\* the events of a scan that found n devices; info[i] tells if
\* get_device_info succeeded for device i
RECURSIVE DeviceEvents(_, _)
DeviceEvents(n, info) ==
    IF n = 0 THEN <<>>
    ELSE DeviceEvents(n - 1, info)
             \o (IF info[n] THEN <<"DeviceInfo">> ELSE <<>>)

HandleRefresh ==
    \E c \in Commands :
        /\ Recv(c)
        /\ c.cmd = "Refresh"
        /\ \/ \E n \in 0..MaxDevices, info \in [1..MaxDevices -> BOOLEAN] :
                  Handle(Handled("Refresh", FALSE,
                                 DeviceEvents(n, info) \o <<"Devices">>))
           \/ Handle(Handled("Refresh", TRUE, <<"Status">>))

HandlePair ==
    \E c \in Commands, ok \in BOOLEAN :
        /\ Recv(c)
        /\ c.cmd = "Pair"
        /\ Handle(Handled("Pair", ~ok, <<"Status", "Status">>))

HandleGetDeviceInfo ==
    \E c \in Commands, ok \in BOOLEAN :
        /\ Recv(c)
        /\ c.cmd = "GetDeviceInfo"
        /\ Handle(Handled("GetDeviceInfo", ~ok,
                          <<"Status", IF ok THEN "DeviceInfo" ELSE "Status">>))

\* handle_afc; fails_at is the first step that returns Err, 0 if none does
HandleAfcList ==
    \E c \in Commands :
        /\ Recv(c)
        /\ c.cmd = "AfcList"
        /\ \E fails_at \in 0..Len(AfcSteps(c)) :
              IF fails_at = 0
              THEN Handle(Handled("AfcList", FALSE, <<"AfcListResponse">>))
              ELSE IF AfcSteps(c)[fails_at] \in AfcUnwrapped
              THEN Panic(Handled("AfcList", TRUE, <<>>))
              ELSE Handle(Handled("AfcList", TRUE, <<"AfcStatus">>))

\* rx.recv() gives Err: the channel is empty and every sender is dropped
Disconnected ==
    /\ worker = "recv"
    /\ rx = <<>>
    /\ ~gui_alive
    /\ worker' = "stopped"
    /\ UNCHANGED <<codec, th, heap, overflow_checks, rx, gui_alive, sent,
                   last, handled>>

\* one turn of worker_loop
WorkerStep ==
    \/ HandleRefresh
    \/ HandlePair
    \/ HandleGetDeviceInfo
    \/ HandleAfcList
    \/ Disconnected

InitWorker == Init

NextWorker ==
    \/ \E c \in Commands : Send(c)
    \/ CloseGui
    \/ HandleRefresh
    \/ HandlePair
    \/ HandleGetDeviceInfo
    \/ HandleAfcList
    \/ Disconnected

\* the worker thread is scheduled: a turn of the loop that can be taken is
\* taken
SpecWorker == InitWorker /\ [][NextWorker]_vars /\ WF_vars(WorkerStep)

-----------------------------------------------------------------------------
(* Properties.                                                             *)

Decoded == out.kind # "None"

ObjectStream == made \in {"encoded", "raw", "truncated", "raw_truncated", "poked"}

MessageStream ==
    made \in {"msg_encoded", "msg_raw", "msg_truncated", "msg_raw_truncated",
              "msg_relabelled"}

KnownTags ==
    { TagBool, TagInt64, TagUInt64, TagData, TagString, TagUuid, TagArray,
      TagDictionary }

\* the words at bytes [0,4) and [4,8) of the buffer, which holds 8 bytes
Word0 == U32FromLeBytes(SubSeq(buf, 1, 4))
Word1 == U32FromLeBytes(SubSeq(buf, 5, 8))

\* the declared body length of a frame of at least 24 bytes
DeclaredBodyLen == U64FromLeBytes(SubSeq(buf, 9, 16))

\* body_len + 24 > n as mathematical integers, for a buffer length n < 2^16
Plus24Exceeds(body_len, n) ==
    body_len[4] # 0 \/ body_len[3] # 0 \/ body_len[2] # 0 \/ body_len[1] + 24 > n

\* C1: decoding the encoding of any XPCObject tree succeeds and returns a
\* value equal to the tree.
C1_RoundTrip ==
    (made = "encoded" /\ Decoded) => (out.kind = "Ok" /\ out.val = obj[1])

\* C2: decoding m.encode(id) succeeds with flags equal to m.flags, message_id
\* equal to Some(id) and message equal to m.message.
C2_MessageRoundTrip ==
    (made = "msg_encoded" /\ Decoded) =>
        /\ out.kind = "Ok"
        /\ out.flags = msg[1].flags
        /\ out.message_id = Some(id)
        /\ out.message = msg[1].message

\* C3: XPCObject::decode of any strict prefix of x.encode() returns an error:
\* it neither returns Ok nor panics.
C3_TruncatedIsError ==
    (made = "truncated" /\ Decoded) => out.kind = "Err"

\* C4: XPCObject::decode of a buffer shorter than 8 bytes returns an error
\* value and does not panic.
C4_ShortBufferIsError ==
    (ObjectStream /\ Decoded /\ Len(buf) < 8) => out.kind = "Err"

\* C5: XPCMessage::decode returns Ok or Err for every buffer, whatever its
\* header fields say: no slice access in it or in the nested
\* XPCObject::decode is out of bounds.
C5_MessageDecodeTotal ==
    (MessageStream /\ Decoded) => out.kind \in {"Ok", "Err"}

\* C6: for a buffer of at least 24 bytes with the message magic, if the
\* declared body length plus 24 exceeds the buffer length, as integers,
\* XPCMessage::decode returns an error, also when body_len + 24 wraps.
C6_BodyLenCheckedWithoutWrap ==
    (MessageStream /\ Decoded /\ Len(buf) >= HeaderLen /\ Word0 = MessageMagic
       /\ Plus24Exceeds(DeclaredBodyLen, Len(buf)))
      => out.kind = "Err"

\* C7: XPCMessage::decode of any strict prefix of m.encode(id) returns an
\* error: the header-size error below 24 bytes, the body-length error from 24
\* bytes on.
C7_TruncatedMessageIsError ==
    (made = "msg_truncated" /\ Decoded) =>
        /\ out.kind = "Err"
        /\ out.msg = IF Len(buf) < HeaderLen
                     THEN "XPCMessage must be at least 24 bytes."
                     ELSE "XPCMessage body length given is incorrect."

\* a frame cut inside its body was decoded
C7_Witness ==
    /\ made = "msg_truncated" /\ Decoded
    /\ Len(buf) > HeaderLen
    /\ Len(buf) < Len(XPCMessage_encode(msg[1], id))
    /\ out.kind = "Err"

\* C8: when the decoder reads a type tag that is none of the eight known
\* tags, at the top level or nested, XPCObject::decode returns an error for
\* the whole call.
C8_UnknownTagIsError ==
    (ObjectStream /\ Decoded /\ out.kind # "Panic"
       /\ \E i \in 1..Len(out.tags) : out.tags[i] \notin KnownTags)
      => out.kind = "Err"

\* an unknown tag was read inside a container, after other values decoded
C8_Witness ==
    /\ made = "poked" /\ Decoded /\ out.kind = "Err"
    /\ Len(out.tags) >= 3
    /\ out.tags[1] \in {TagArray, TagDictionary}
    /\ out.tags[Len(out.tags)] \notin KnownTags

\* C9: XPCObject::decode of a buffer of at least 8 bytes returns an error
\* whenever the word at [0,4) is not 0x42133742 or the word at [4,8) is not
\* 5, whatever follows; and every output of XPCObject::encode starts with
\* these two words.
C9_HeaderWords ==
    /\ (ObjectStream /\ Decoded /\ Len(buf) >= 8
          /\ (Word0 # ObjectMagic \/ Word1 # ObjectVersion))
         => out.kind = "Err"
    /\ made = "encoded" =>
         Len(buf) >= 8 /\ Word0 = ObjectMagic /\ Word1 = ObjectVersion

\* a stream with the right magic, another version and a well-formed value
\* was decoded
C9_Witness ==
    /\ made = "raw" /\ Decoded /\ out.kind = "Err"
    /\ Len(buf) > 8 /\ Word0 = ObjectMagic /\ Word1 # ObjectVersion
    /\ decode_object(SubSeq(buf, 9, Len(buf)), 0).kind = "Ok"

\* C10: XPCMessage::decode returns an error for every buffer shorter than 24
\* bytes and for every buffer whose first word is not 0x29b00b92, whatever
\* the flags, length, id and body.
C10_HeaderRejected ==
    (MessageStream /\ Decoded) =>
        /\ Len(buf) < HeaderLen =>
             out = ErrR("XPCMessage must be at least 24 bytes.", <<>>)
        /\ (Len(buf) >= HeaderLen /\ Word0 # MessageMagic) =>
             out = ErrR("XPCMessage magic is invalid.", <<>>)

\* a frame with another magic whose remaining fields and body are well-formed
\* was decoded
C10_Witness ==
    /\ made = "msg_raw" /\ Decoded /\ out.kind = "Err"
    /\ Len(buf) > HeaderLen /\ Word0 # MessageMagic
    /\ Len(buf) = HeaderLen + DeclaredBodyLen[1]
    /\ XPCObject_decode(SubSeq(buf, HeaderLen + 1, Len(buf))).kind = "Ok"

\* C11: when XPCMessage::decode succeeds, flags is the u32 at [4,8),
\* message_id is Some of the u64 at [16,24), and message is None exactly when
\* the declared body length is 0, otherwise Some of the object decoded from
\* bytes [24, 24 + body_len).
C11_DecodedFields ==
    (MessageStream /\ Decoded /\ out.kind = "Ok") =>
        /\ out.flags = U32FromLeBytes(SubSeq(buf, 5, 8))
        /\ out.message_id = Some(U64FromLeBytes(SubSeq(buf, 17, 24)))
        /\ (out.message = None) <=> (DeclaredBodyLen = U64Zero)
        /\ DeclaredBodyLen # U64Zero =>
             LET body == XPCObject_decode(
                             SubSeq(buf, HeaderLen + 1, HeaderLen + DeclaredBodyLen[1]))
             IN  body.kind = "Ok" /\ out.message = Some(body.val)

\* a raw frame with a body and a byte after it decoded successfully
C11_Witness ==
    /\ made = "msg_raw" /\ Decoded /\ out.kind = "Ok"
    /\ out.message # None
    /\ Len(buf) > HeaderLen + DeclaredBodyLen[1]
    /\ out.message_id = Some(U64_max)

\* C12: the length of m.encode(id) is 24 plus the value of the body-length
\* field at [8,16); the field is 0 exactly when m.message is None, and then
\* the output is the 24 bytes magic, flags, 0u64, id.
C12_EncodedLength ==
    made = "msg_encoded" =>
        /\ Len(buf) >= HeaderLen
        /\ DeclaredBodyLen[2] = 0 /\ DeclaredBodyLen[3] = 0 /\ DeclaredBodyLen[4] = 0
        /\ Len(buf) = HeaderLen + DeclaredBodyLen[1]
        /\ (DeclaredBodyLen = U64Zero) <=> (msg[1].message = None)
        /\ msg[1].message = None =>
             buf = <<146, 11, 176, 41>> \o U32ToLeBytes(msg[1].flags)
                     \o Zeros(8) \o U64ToLeBytes(id)

\* a message with a Dictionary body was encoded
C12_Witness ==
    /\ made = "msg_encoded"
    /\ msg[1].message # None
    /\ msg[1].message[1].t = "Dictionary"
    /\ Len(buf) > HeaderLen + 16

\* C13: the bytes of m.encode(id) do not depend on m.message_id: messages
\* that differ only in that field (None, Some(a), Some(b)) encode to the same
\* bytes under the same id argument, and bytes [16,24) hold the argument.
C13_OwnIdIgnored ==
    made = "msg_encoded" =>
        /\ \A mi \in { None, Some(<<7, 0, 0, 0>>), Some(U64_max), Some(id) } :
             XPCMessage_encode([msg[1] EXCEPT !.message_id = mi], id) = buf
        /\ SubSeq(buf, 17, 24) = U64ToLeBytes(id)

\* a message whose own message_id is Some(7) was encoded with another id
C13_Witness ==
    /\ made = "msg_encoded"
    /\ msg[1].message_id = Some(<<7, 0, 0, 0>>)
    /\ id = <<42, 0, 0, 0>>

\* C14: decoding the bytes of Bool(true).encode() returns Bool(true), and a
\* decoded Bool is true exactly when its value byte (byte 12 of the stream)
\* is 0, the sense in which the encoder writes it.
C14_BoolSense ==
    /\ (made = "encoded" /\ obj = Some(Bool(TRUE)) /\ Decoded) =>
           (out.kind = "Ok" /\ out.val = Bool(TRUE))
    /\ (made \in {"encoded", "poked"} /\ obj[1].t = "Bool" /\ Decoded
          /\ out.kind = "Ok" /\ out.val.t = "Bool") =>
           (out.val.b <=> (buf[13] = 0))

\* C15: when the encoding of a value is decoded, the cursor ends exactly
\* after the bytes encode_object wrote (the stream without its 8-byte header).
C15_CursorAdvance ==
    (made = "encoded" /\ Decoded /\ out.kind = "Ok") => out.pos = Len(buf) - 8

\* a String value whose text holds no NUL
NulFree(s) == \A i \in 1..Len(s) : s[i] # 0

\* C16: for a String s without an embedded NUL the encoding is the tag
\* 0x00009000, the u32 length Len(s) + 1, the bytes of s, one NUL and the
\* zero bytes that fill the word, and decoding it gives s back; "hi" has
\* length field 3 and one padding byte.
C16_StringLayout ==
    (made = "encoded" /\ obj[1].t = "String" /\ NulFree(obj[1].s)) =>
        LET s == obj[1].s
            l == Len(s) + 1
        IN  /\ SubSeq(buf, 9, Len(buf)) =
                 <<0, 144, 0, 0>> \o <<l, 0, 0, 0>> \o s \o <<0>>
                   \o Zeros((4 - (l % 4)) % 4)
            /\ Decoded => (out.kind = "Ok" /\ out.val = String(s))
            /\ s = Str_hi =>
                 SubSeq(buf, 13, Len(buf)) = <<3, 0, 0, 0, 104, 105, 0, 0>>

\* the encoding of "abcd", with three padding bytes, was decoded
C16_Witness ==
    /\ made = "encoded" /\ obj = Some(String(Str_abcd))
    /\ Decoded /\ out.kind = "Ok"
    /\ Len(buf) = 24

\* a Dictionary all of whose values are Int64 or UInt64
IntegerDictionary(x) ==
    /\ x.t = "Dictionary"
    /\ \A i \in 1..Len(x.entries) : x.entries[i][2].t \in {"Int64", "UInt64"}

\* C17: a Dictionary with unique NUL-free keys and Int64/UInt64 values
\* decodes from its encoding to the same (key, value) pairs in the same
\* insertion order.
C17_DictionaryOrder ==
    (made = "encoded" /\ IntegerDictionary(obj[1]) /\ Decoded) =>
        /\ out.kind = "Ok"
        /\ out.val.t = "Dictionary"
        /\ out.val.entries = obj[1].entries

\* {"a": Int64(1), "bb": UInt64(2)} came back with "a" before "bb"
C17_Witness ==
    /\ made = "encoded" /\ Decoded /\ out.kind = "Ok"
    /\ obj = Some(Dictionary(<<<<Str_a, Int64(I64_one)>>, <<Str_bb, UInt64(U64_two)>>>>))
    /\ out.val.entries[1][1] = Str_a
    /\ out.val.entries[2][1] = Str_bb

\* the value given to encode is an Array or a Dictionary
Container == obj # None /\ obj[1].t \in {"Array", "Dictionary"}

\* the count word (bytes [16,20) of the stream) of an encoded container was
\* raised by overwriting one of its bytes; the elements are untouched
CountRaised ==
    /\ made = "poked" /\ Container
    /\ \E i \in 17..20 : buf = [XPCObject_encode(obj[1]) EXCEPT ![i] = 255]

\* the encoding of a container was cut after its count word, so that its
\* last element at least is no longer complete
ElementsCut == made = "truncated" /\ Container /\ Len(buf) >= 20

\* C18: when the count of an Array or Dictionary is larger than the number
\* of complete elements in the buffer, XPCObject::decode returns an error: no
\* panic, no success, and no more tags read than the buffer has words.
C18_CountExceedsElements ==
    ((CountRaised \/ ElementsCut) /\ Decoded) =>
        /\ out.kind = "Err"
        /\ 4 * Len(out.tags) <= Len(buf) - 8

\* the buffer is an object stream whose top-level value has tag `tag` and a
\* second word after it
TopLevel(tag) ==
    /\ ObjectStream /\ Len(buf) >= 16
    /\ Word0 = ObjectMagic /\ Word1 = ObjectVersion
    /\ U32FromLeBytes(SubSeq(buf, 9, 12)) = tag

\* the declared length of a top-level String, and its payload when the buffer
\* holds all of it
DeclaredLen == U32FromLeBytes(SubSeq(buf, 13, 16))
PayloadPresent == DeclaredLen[2] = 0 /\ 16 + DeclaredLen[1] <= Len(buf)
Payload == SubSeq(buf, 17, 16 + DeclaredLen[1])

\* the payload is empty, does not end with NUL, or holds a NUL before its end
PayloadNotCString ==
    \/ Payload = <<>>
    \/ Payload[Len(Payload)] # 0
    \/ \E i \in 1..(Len(Payload) - 1) : Payload[i] = 0

\* a top-level Dictionary declares an entry and no NUL follows its count
KeyRunsToEnd ==
    /\ TopLevel(TagDictionary) /\ Len(buf) >= 20
    /\ U32FromLeBytes(SubSeq(buf, 17, 20)) # <<0, 0>>
    /\ \A i \in 21..Len(buf) : buf[i] # 0

\* C19: decoding is an error when a String's declared-length payload does not
\* end with NUL (declared length 0 included) or holds a NUL before its last
\* byte, and when a Dictionary key reaches the end of the buffer without a NUL.
C19_NulTerminator ==
    /\ (TopLevel(TagString) /\ PayloadPresent /\ PayloadNotCString /\ Decoded) =>
           out.kind = "Err"
    /\ (KeyRunsToEnd /\ Decoded) => out.kind = "Err"

\* a String of declared length 0 was refused by CString::from_vec_with_nul
C19_Witness ==
    /\ made = "raw" /\ TopLevel(TagString) /\ DeclaredLen = <<0, 0>>
    /\ Decoded /\ out.kind = "Err" /\ out.msg = "FromVecWithNulError"

\* the least c with 4 * c >= n
CeilDiv4(n) == CHOOSE c \in 0..n : 4 * c >= n /\ (c = 0 \/ 4 * (c - 1) < n)

\* C20: for every length n of the checked range, calculate_padding(n) is
\* ceil(n/4)*4 - n, lies in 0..3, and n plus it is a multiple of 4.
C20_Padding ==
    made = "padded" =>
        /\ pad_out = CeilDiv4(pad_len) * 4 - pad_len
        /\ 0 <= pad_out /\ pad_out < 4
        /\ (pad_len + pad_out) % 4 = 0

\* calculate_padding(5) returned 3
C20_Witness == made = "padded" /\ pad_len = 5 /\ pad_out = 3

\* bit i (0..31) of a u32
Bit(w, i) == (w[i \div 16 + 1] \div (2 ^ (i % 16))) % 2

\* C21: for all XPCFlag values a and b, the resolved value of a | b has in
\* each of its 32 bits the OR of the bits of the resolved values of a and b,
\* and a == b holds exactly when the resolved values are equal, whatever the
\* variants; Custom(1) == AlwaysSet and AlwaysSet | DataFlag == Custom(0x101).
C21_FlagAlgebra ==
    made = "flags" =>
        LET a == call[1]
            b == call[2]
            r == U32FromXPCFlag(got.bitor)
        IN  /\ \A i \in 0..31 :
                 Bit(r, i) = 1 <=>
                   (Bit(U32FromXPCFlag(a), i) = 1 \/ Bit(U32FromXPCFlag(b), i) = 1)
            /\ r[1] < Limb /\ r[2] < Limb
            /\ got.eq <=> (U32FromXPCFlag(a) = U32FromXPCFlag(b))
            /\ (a = Custom(<<1, 0>>) /\ b = AlwaysSet) => got.eq
            /\ (a = AlwaysSet /\ b = DataFlag) =>
                 XPCFlag_eq(got.bitor, Custom(<<257, 0>>))

\* Custom(0x00000001) was compared with AlwaysSet and found equal
C21_Witness ==
    /\ made = "flags"
    /\ call = <<Custom(<<1, 0>>), AlwaysSet>>
    /\ got.eq
    /\ got.bitor = Custom(<<1, 0>>)

\* the property-list tree p holds, at some depth, a date, a real, a uid or an
\* integer above i64::MAX
RECURSIVE Unsupported(_)
Unsupported(p) ==
    \/ p.t \in {"Date", "Real", "Uid"}
    \/ p.t = "Integer" /\ p.w[4] >= 32768 /\ p.b
    \/ \E i \in 1..Len(p.items) : Unsupported(p.items[i])
    \/ \E i \in 1..Len(p.entries) : Unsupported(p.entries[i][2])

\* x holds every element of the property-list tree p, in its place
RECURSIVE Carries(_, _)
Carries(x, p) ==
    CASE p.t = "Boolean" -> x.t = "Bool" /\ x.b = p.b
      [] p.t = "Data" -> x.t = "Data" /\ x.s = p.s
      [] p.t = "String" -> x.t = "String" /\ x.s = p.s
      [] p.t = "Integer" -> x.t = "Int64" /\ x.w = p.w
      [] p.t = "Array" ->
           /\ x.t = "Array" /\ Len(x.items) = Len(p.items)
           /\ \A i \in 1..Len(p.items) : Carries(x.items[i], p.items[i])
      [] p.t = "Dictionary" ->
           /\ x.t = "Dictionary" /\ Len(x.entries) = Len(p.entries)
           /\ \A i \in 1..Len(p.entries) :
                /\ x.entries[i][1] = p.entries[i][1]
                /\ Carries(x.entries[i][2], p.entries[i][2])
      [] OTHER -> FALSE

\* C22: XPCObject::from(p) gives no XPCObject exactly when p holds, at any
\* depth, a date, real or uid or an integer that is not an i64; otherwise it
\* gives an XPCObject that holds every element of p, none dropped or replaced.
C22_FromPlistFails ==
    made = "from_plist" =>
        /\ got.kind \in {"Ok", "Panic"}
        /\ (got.kind = "Panic") <=> Unsupported(call)
        /\ got.kind = "Ok" => Carries(got.val, call)

\* a real two levels down made the conversion fail
C22_Witness ==
    /\ made = "from_plist"
    /\ call = PDictionary(<<<<Str_a, PArray(<<PReal>>)>>>>)
    /\ got.kind = "Panic"

\* the XPCObject tree x holds a Uuid or a UInt64 at some depth
RECURSIVE HoldsUuidOrUInt64(_)
HoldsUuidOrUInt64(x) ==
    \/ x.t \in {"Uuid", "UInt64"}
    \/ \E i \in 1..Len(x.items) : HoldsUuidOrUInt64(x.items[i])
    \/ \E i \in 1..Len(x.entries) : HoldsUuidOrUInt64(x.entries[i][2])

\* C23: for a property list p of dictionaries, arrays, booleans, data,
\* strings and integers that are i64, XPCObject::from(p).to_plist() is p, key
\* order included; for an XPCObject x without Uuid and UInt64,
\* XPCObject::from(x.to_plist()) is x.
C23_ToPlistInverse ==
    /\ (made = "from_plist" /\ ~Unsupported(call)) =>
           (got.kind = "Ok" /\ to_plist(got.val) = call)
    /\ (made = "to_plist" /\ ~HoldsUuidOrUInt64(call)) =>
           XPCObject_from(got) = [kind |-> "Ok", val |-> call]

\* {"bb": 1, "a": true} was converted, "bb" still first
C23_Witness ==
    /\ made = "from_plist"
    /\ call = PDictionary(<<<<Str_bb, IntegerFromI64(I64_one)>>, <<Str_a, PBoolean(TRUE)>>>>)
    /\ got.kind = "Ok"
    /\ got.val.entries[1][1] = Str_bb
    /\ to_plist(got.val).entries[2][1] = Str_a

\* C24: under every interleaving of the calls of the threads, a finished
\* call has returned what it returns when run alone, and two finished decode
\* calls on equal buffers have returned equal results.
C24_CallsIndependent ==
    /\ \A t \in 1..NThreads :
         th[t].pc = "done" => th[t].res = Alone(th[t].call)
    /\ \A t, u \in 1..NThreads :
         (th[t].pc = "done" /\ th[u].pc = "done" /\ th[t].call = th[u].call) =>
             th[t].res = th[u].res

\* an encode call finished while another thread was in the middle of one
C24_Witness ==
    /\ th[1].pc = "done" /\ th[1].call.op = "encode"
    /\ th[2].pc = "body" /\ th[2].call.op = "msg_encode"
    /\ heap[1] # <<>> /\ heap[2] # <<>>

\* C25: for every Bool(b), encode_object writes exactly 8 bytes: the tag
\* 0x00002000 little-endian, a value byte that is 0 for true and 1 for false,
\* and three zero bytes.
C25_BoolLayout ==
    (made = "encoded" /\ obj[1].t = "Bool") =>
        /\ Len(buf) = 8 + 8
        /\ SubSeq(buf, 9, 16) =
             <<0, 32, 0, 0>> \o <<IF obj[1].b THEN 0 ELSE 1>> \o <<0, 0, 0>>

\* Bool(false) was encoded with value byte 1
C25_Witness ==
    /\ made = "encoded" /\ obj = Some(Bool(FALSE))
    /\ buf[13] = 1

\* a frame whose declared body length is B > 0 and small, with bytes after
\* offset 24 + B
BodyThenMore ==
    /\ MessageStream /\ Len(buf) >= HeaderLen
    /\ DeclaredBodyLen # U64Zero
    /\ ~Plus24Exceeds(DeclaredBodyLen, Len(buf) - 1)

\* C26: when the declared body length B > 0 is followed by further bytes, the
\* result of XPCMessage::decode is that of the frame cut at 24 + B (no byte
\* from 24 + B on is read), and an encoded body that is longer than B bytes
\* gives an error.
C26_BodyBounded ==
    (BodyThenMore /\ Decoded) =>
        /\ \E oc \in BOOLEAN :
             out = XPCMessage_decode(SubSeq(buf, 1, HeaderLen + DeclaredBodyLen[1]), oc)
        /\ made = "msg_relabelled" => out.kind = "Err"

\* every Dictionary in the tree x has pairwise-distinct keys without NUL
RECURSIVE KeysWellFormed(_)
KeysWellFormed(x) ==
    /\ \A i, j \in 1..Len(x.entries) :
         x.entries[i][1] = x.entries[j][1] => i = j
    /\ \A i \in 1..Len(x.entries) :
         /\ \A k \in 1..Len(x.entries[i][1]) : x.entries[i][1][k] # 0
         /\ KeysWellFormed(x.entries[i][2])
    /\ \A i \in 1..Len(x.items) : KeysWellFormed(x.items[i])

\* C27: every Dictionary returned by a successful XPCObject::decode, whatever
\* the buffer, has pairwise-distinct keys without a NUL byte, and a top-level
\* Dictionary has at most the declared count of entries.
C27_DictionaryKeys ==
    (ObjectStream /\ Decoded /\ out.kind = "Ok") =>
        /\ KeysWellFormed(out.val)
        /\ out.val.t = "Dictionary" =>
             LET count == U32FromLeBytes(SubSeq(buf, 17, 20))
             IN  count[2] = 0 => Len(out.val.entries) <= count[1]

\* a buffer that declares two entries with the key "a" decoded to one entry,
\* holding the second value
C27_Witness ==
    /\ made = "raw" /\ Decoded /\ out.kind = "Ok"
    /\ out.val.t = "Dictionary"
    /\ U32FromLeBytes(SubSeq(buf, 17, 20)) = <<2, 0>>
    /\ out.val.entries = <<<<Str_a, Int64(I64_minus_one)>>>>

\* the value x was written at offset off of the buffer: off is a multiple of
\* 4, the tag of x lies there, and the same holds for every value nested in
\* x at the offset where the encoder put it
RECURSIVE TagsAligned(_, _)
TagsAligned(x, off) ==
    /\ off % 4 = 0
    /\ off + 4 <= Len(buf)
    /\ SubSeq(buf, off + 1, off + 4) = U32ToLeBytes(XPCTypeAsU32(x.t))
    /\ \A i \in 1..Len(x.items) :
         TagsAligned(x.items[i],
                     off + 12 + Len(encode_items(SubSeq(x.items, 1, i - 1), 1)))
    /\ \A i \in 1..Len(x.entries) :
         TagsAligned(x.entries[i][2],
                     off + 12 + Len(encode_entries(SubSeq(x.entries, 1, i), 1))
                       - Len(encode_object(x.entries[i][2])))

\* C28: the length of x.encode() is a multiple of 4, and the tag of every
\* nested value (Array element, Dictionary value) starts at an offset of the
\* buffer that is a multiple of 4.
C28_WordAligned ==
    made = "encoded" =>
        /\ Len(buf) % 4 = 0
        /\ TagsAligned(obj[1], 8)

\* {"a": [true, "hi"]} was encoded: the Array at offset 24, its elements at
\* 36 and 44
C28_Witness ==
    /\ made = "encoded"
    /\ obj = Some(Dictionary(<<<<Str_a, Array(<<Bool(TRUE), String(Str_hi)>>)>>>>))
    /\ Len(buf) = 56
    /\ SubSeq(buf, 45, 48) = <<0, 144, 0, 0>>

\* C29: XPCObject::decode returns on every buffer, having read at most one
\* tag per 4 bytes of it whatever counts it declares; a loop that ran to its
\* declared count consumed bytes in each iteration, so a container decoded
\* with success declares no more iterations than the buffer has words after
\* its count.
C29_DecodeTerminates ==
    (ObjectStream /\ Decoded) =>
        /\ out.kind \in {"Ok", "Err", "Panic"}
        /\ out.kind # "Panic" => 4 * Len(out.tags) <= Len(buf)
        /\ (out.kind = "Ok" /\ out.val.t \in {"Array", "Dictionary"}) =>
             LET count == U32FromLeBytes(SubSeq(buf, 17, 20))
             IN  count[2] = 0 /\ 4 * count[1] <= Len(buf) - 20

\* an Array whose count was raised to 0xff000000 and more was decoded: the
\* loop ended with an error after the elements the buffer holds
C29_Witness ==
    /\ CountRaised /\ buf[20] = 255
    /\ obj[1].t = "Array" /\ Len(obj[1].items) = 2
    /\ Decoded /\ out.kind = "Err"
    /\ Len(out.tags) >= 3

\* C30: in the pair_gui worker, a command whose handling failed is reported
\* with a Status or AfcStatus event as its last event, the worker leaves its
\* loop only when the command channel is empty and the GUI is gone, and in
\* the end every command the GUI sent has been handled.
FailureReported ==
    last.failed =>
        /\ last.events # <<>>
        /\ last.events[Len(last.events)] \in {"Status", "AfcStatus"}

StopsOnlyDisconnected ==
    worker # "recv" => (worker = "stopped" /\ rx = <<>> /\ ~gui_alive)

C30_WorkerKeepsGoing ==
    /\ [](FailureReported /\ StopsOnlyDisconnected)
    /\ <>[](handled = sent)

=============================================================================
